---- MODULE Spec2Model ----
(***************************************************************************)
(* Conway's Game of Life on a bounded grid: the simulation engine of       *)
(* src/lib/game.js (getNeighbors, isAlive, willLive, setAlive and the      *)
(* class Game) modelled as a state machine.                                *)
(*                                                                         *)
(* A SparseMatrix (Record<number, Set<number>>) is a function whose domain *)
(* is the set of column keys the object has and whose values are the sets  *)
(* of rows.  Objects have identity: the heap is the sequence of all        *)
(* SparseMatrix objects the Game has allocated, and a reference is an      *)
(* index into it.                                                          *)
(***************************************************************************)
EXTENDS Integers, Sequences, FiniteSets, TLC

\* ------------------------------------------------------------------ bounds

\* Width and height of a World range over 0..MaxDim.
MaxDim == 2
\* A pattern handed to applyPattern has at most MaxPatternLen points.
MaxPatternLen == 3
\* Offsets handed to applyPattern range over -1..MaxOffset.
MaxOffset == 1
\* The Game allocates at most MaxObjects grids (constructor, clear, tick).
MaxObjects == 2
\* SpecTick: a World has at most MaxCells cells (width * height).
MaxCells == 9
\* SpecNeighbors: widths and heights range over 0..MaxSide.
MaxSide == 3
\* SpecSetAlive: the matrices hold cells of 0..MaxCoord-1 and the calls
\* take x, y of -1..MaxCoord and maxima of 0..MaxCoord.
MaxCoord == 2
\* SpecSetAlive: the same call is made MaxCalls times.
MaxCalls == 2
\* SpecParse: a text has at most MaxTextLen characters.
MaxTextLen == 7
\* SpecGenerations: a World is MaxWorld - 1 or MaxWorld wide and high, its
\* first generation has at most MaxPopulation live cells, all within the
\* first MaxBoxWidth columns and MaxBoxHeight rows, and MaxGenerations
\* generations are computed (the first one included).
MaxWorld == 5
MaxBoxWidth == 2
MaxBoxHeight == 3
MaxPopulation == 4
MaxGenerations == 3
\* SpecVariants: a World has at most MaxVariantCells cells.
MaxVariantCells == 6

VARIABLES
    width,      \* Game.#width
    height,     \* Game.#height
    heap,       \* the SparseMatrix objects allocated so far
    living,     \* Game.#living: a reference into heap
    pattern,    \* the Point[] the caller holds and applies
    offsetX,    \* the offsets the caller applies it with
    offsetY,
    lastOp,     \* the last Game method called, its arguments and outcome
    matrix,     \* the SparseMatrix a direct setAlive call is made on
    call,       \* the direct call (setAlive, getNeighbors) and its outcome
    next,       \* tick, step by step: the object next it is filling
    cell,       \* tick, step by step: the cells evaluated so far; -1 outside a tick
    world,      \* the World of the variant of src/gol.js
    state,      \* Renderer.#state: a reference into heap; 0 without Renderer
    painted     \* the cells of the canvas last painted as enabled

vars == <<width, height, heap, living, pattern, offsetX, offsetY, lastOp, matrix, call,
          next, cell, world, state, painted>>

\* The variables of the step-by-step tick, of the variant and of the
\* Renderer.
otherVars == <<next, cell, world, state, painted>>

\* ------------------------------------------------------- sparse matrices

\* {} : an object without keys.
EmptyMatrix == [k \in {} |-> {}]

\* An omitted maximum: the default parameter value Infinity.
Infinity == <<>>

\* v >= max, where max is Infinity or <<n>>.
AtLeast(v, max) == max # Infinity /\ v >= max[1]

\* The live cells a matrix holds, as a set of points.
Cells(m) == UNION {{<<x, y>> : y \in m[x]} : x \in DOMAIN m}

\* !!living[x]?.has(y)
isAlive(m, x, y) == x \in DOMAIN m /\ y \in m[x]

\* living[x] = new Set() when absent; living[x].add(y)
AddCell(m, x, y) ==
    IF x \in DOMAIN m
      THEN [m EXCEPT ![x] = @ \cup {y}]
      ELSE [k \in DOMAIN m \cup {x} |-> IF k = x THEN {y} ELSE m[k]]

\* Mutant: the bounds are not checked at all.
setAlive_Unchecked(m, x, y, alive, mx, my) ==
    IF ~alive /\ isAlive(m, x, y)
      THEN [threw |-> FALSE, living |-> [m EXCEPT ![x] = @ \ {y}]]
      ELSE IF alive
        THEN [threw |-> FALSE, living |-> AddCell(m, x, y)]
        ELSE [threw |-> FALSE, living |-> m]

\* Mutant: the bounds are checked after the cell has been written.
setAlive_CheckLate(m, x, y, alive, mx, my) ==
    LET r == setAlive_Unchecked(m, x, y, alive, mx, my)
    IN  IF x < 0 \/ AtLeast(x, mx) \/ y < 0 \/ AtLeast(y, my)
          THEN [threw |-> TRUE, living |-> r.living]
          ELSE r

\* Mutant: a dead cell is never removed.
setAlive_NoDelete(m, x, y, alive, mx, my) ==
    IF x < 0 \/ AtLeast(x, mx) \/ y < 0 \/ AtLeast(y, my)
      THEN [threw |-> TRUE, living |-> m]
      ELSE IF alive
        THEN [threw |-> FALSE, living |-> AddCell(m, x, y)]
        ELSE [threw |-> FALSE, living |-> m]

\* setAlive(living, x, y, alive, mx, my): the outcome (threw) and the object
\* after the call; a throw happens before any write.
setAlive(m, x, y, alive, mx, my) ==
    IF x < 0 \/ AtLeast(x, mx)
      THEN [threw |-> TRUE, living |-> m]
    ELSE IF y < 0 \/ AtLeast(y, my)
      THEN [threw |-> TRUE, living |-> m]
    ELSE IF ~alive /\ isAlive(m, x, y)
      THEN [threw |-> FALSE, living |-> [m EXCEPT ![x] = @ \ {y}]]
    ELSE IF alive
      THEN [threw |-> FALSE, living |-> AddCell(m, x, y)]
    ELSE [threw |-> FALSE, living |-> m]

\* ---------------------------------------------------------- neighbourhood

\* Mutant: the north-west neighbour is pushed without the test on y.
getNeighbors_NoNorthTest(x, y, w, h) ==
    IF x < 0 \/ y < 0 \/ x >= w \/ y >= h THEN <<>>
    ELSE   (IF y - 1 >= 0 THEN << <<x, y - 1>> >> ELSE <<>>)
        \o (IF x + 1 < w /\ y - 1 >= 0 THEN << <<x + 1, y - 1>> >> ELSE <<>>)
        \o (IF x + 1 < w THEN << <<x + 1, y>> >> ELSE <<>>)
        \o (IF x + 1 < w /\ y + 1 < h THEN << <<x + 1, y + 1>> >> ELSE <<>>)
        \o (IF y + 1 < h THEN << <<x, y + 1>> >> ELSE <<>>)
        \o (IF x - 1 >= 0 /\ y + 1 < h THEN << <<x - 1, y + 1>> >> ELSE <<>>)
        \o (IF x - 1 >= 0 THEN << <<x - 1, y>> >> ELSE <<>>)
        \o (IF x - 1 >= 0 THEN << <<x - 1, y - 1>> >> ELSE <<>>)

\* Mutant: the grid wraps around at its east and west borders.
getNeighbors_Wrap(x, y, w, h) ==
    IF x < 0 \/ y < 0 \/ x >= w \/ y >= h THEN <<>>
    ELSE   (IF y - 1 >= 0 THEN << <<x, y - 1>> >> ELSE <<>>)
        \o (IF y - 1 >= 0 THEN << <<(x + 1) % w, y - 1>> >> ELSE <<>>)
        \o << <<(x + 1) % w, y>> >>
        \o (IF y + 1 < h THEN << <<(x + 1) % w, y + 1>> >> ELSE <<>>)
        \o (IF y + 1 < h THEN << <<x, y + 1>> >> ELSE <<>>)
        \o (IF y + 1 < h THEN << <<(x - 1) % w, y + 1>> >> ELSE <<>>)
        \o << <<(x - 1) % w, y>> >>
        \o (IF y - 1 >= 0 THEN << <<(x - 1) % w, y - 1>> >> ELSE <<>>)

\* getNeighbors(x, y, width, height): the array n, pushed in compass order.
getNeighbors(x, y, w, h) ==
    IF x < 0 \/ y < 0 \/ x >= w \/ y >= h THEN <<>>
    ELSE   (IF y - 1 >= 0 THEN << <<x, y - 1>> >> ELSE <<>>)
        \o (IF x + 1 < w /\ y - 1 >= 0 THEN << <<x + 1, y - 1>> >> ELSE <<>>)
        \o (IF x + 1 < w THEN << <<x + 1, y>> >> ELSE <<>>)
        \o (IF x + 1 < w /\ y + 1 < h THEN << <<x + 1, y + 1>> >> ELSE <<>>)
        \o (IF y + 1 < h THEN << <<x, y + 1>> >> ELSE <<>>)
        \o (IF x - 1 >= 0 /\ y + 1 < h THEN << <<x - 1, y + 1>> >> ELSE <<>>)
        \o (IF x - 1 >= 0 THEN << <<x - 1, y>> >> ELSE <<>>)
        \o (IF x - 1 >= 0 /\ y - 1 >= 0 THEN << <<x - 1, y - 1>> >> ELSE <<>>)

\* ------------------------------------------------------------------ rule

\* Mutant: a live cell with four live neighbours survives too.
willLive_Survive4(game, x, y) ==
    LET alive(p) == isAlive(game.living, p[1], p[2])
        length == Len(SelectSeq(getNeighbors(x, y, game.width, game.height), alive))
    IN  IF isAlive(game.living, x, y)
          THEN length = 2 \/ length = 3 \/ length = 4
          ELSE length = 3

\* Mutant: no dead cell comes alive.
willLive_NoBirth(game, x, y) ==
    LET alive(p) == isAlive(game.living, p[1], p[2])
        length == Len(SelectSeq(getNeighbors(x, y, game.width, game.height), alive))
    IN  isAlive(game.living, x, y) /\ (length = 2 \/ length = 3)

\* Mutant: a live cell survives with two live neighbours only.
willLive_Survive2(game, x, y) ==
    LET alive(p) == isAlive(game.living, p[1], p[2])
        length == Len(SelectSeq(getNeighbors(x, y, game.width, game.height), alive))
    IN  IF isAlive(game.living, x, y)
          THEN length = 2
          ELSE length = 3

\* willLive({width, height, living}, x, y)
willLive(game, x, y) ==
    LET alive(p) == isAlive(game.living, p[1], p[2])
        length == Len(SelectSeq(getNeighbors(x, y, game.width, game.height), alive))
    IN  IF isAlive(game.living, x, y)
          THEN length = 2 \/ length = 3
          ELSE length = 3

\* ------------------------------------------- the variant of src/gol.js

\* create(width, height): a World without live cells.
create(w, h) == [width |-> w, height |-> h, living |-> EmptyMatrix]

\* delete living[x]
DeleteKey(m, x) == [k \in DOMAIN m \ {x} |-> m[k]]

\* Mutant: the column is deleted whenever one of its cells is removed.
setAliveWorld_DeleteColumn(w, x, y, alive) ==
    IF x < 0 \/ x >= w.width \/ y < 0 \/ y >= w.height
      THEN [threw |-> TRUE, world |-> w]
    ELSE IF ~alive /\ isAlive(w.living, x, y)
      THEN [threw |-> FALSE, world |-> [w EXCEPT !.living = DeleteKey(@, x)]]
    ELSE IF alive
      THEN [threw |-> FALSE, world |-> [w EXCEPT !.living = AddCell(@, x, y)]]
    ELSE [threw |-> FALSE, world |-> w]

\* setAlive(world, x, y, alive) of src/gol.js: the outcome and the World
\* after the call.  A column whose last cell is removed loses its key.
setAliveWorld(w, x, y, alive) ==
    IF x < 0 \/ x >= w.width
      THEN [threw |-> TRUE, world |-> w]
    ELSE IF y < 0 \/ y >= w.height
      THEN [threw |-> TRUE, world |-> w]
    ELSE IF ~alive /\ isAlive(w.living, x, y)
      THEN IF w.living[x] \ {y} = {}
             THEN [threw |-> FALSE, world |-> [w EXCEPT !.living = DeleteKey(@, x)]]
             ELSE [threw |-> FALSE, world |-> [w EXCEPT !.living[x] = @ \ {y}]]
    ELSE IF alive
      THEN [threw |-> FALSE, world |-> [w EXCEPT !.living = AddCell(@, x, y)]]
    ELSE [threw |-> FALSE, world |-> w]

RECURSIVE sweepWorld(_, _, _)
\* The two nested loops of tick(world) of src/gol.js from cell number i on,
\* writing into the World n (its next).
sweepWorld(w, n, i) ==
    IF i >= w.width * w.height THEN [threw |-> FALSE, world |-> n]
    ELSE LET x == i \div w.height
             y == i % w.height
             r == setAliveWorld(n, x, y, willLive(w, x, y))
         IN  IF r.threw THEN r ELSE sweepWorld(w, r.world, i + 1)

\* tick(world) of src/gol.js: the World it returns.
tickWorld(w) == sweepWorld(w, create(w.width, w.height), 0)

\* --------------------------------------------------------- pattern parser

\* A string is a sequence of characters.  The characters String.prototype
\* .trim() removes that the texts of the model are made of.
Whitespace == {" ", "\t", "\r", "\n"}

RECURSIVE split(_)
\* patternString.split("\n"): the pieces between the line feeds, the empty
\* ones included; a string without line feed is one piece.
split(s) ==
    IF \A i \in 1..Len(s) : s[i] # "\n" THEN <<s>>
    ELSE LET i == CHOOSE k \in 1..Len(s) :
                      s[k] = "\n" /\ \A j \in 1..(k - 1) : s[j] # "\n"
         IN  <<SubSeq(s, 1, i - 1)>> \o split(SubSeq(s, i + 1, Len(s)))

\* row.trim(): row without its leading and trailing whitespace.
trim(row) ==
    LET keep == {i \in 1..Len(row) : row[i] \notin Whitespace}
    IN  IF keep = {} THEN <<>>
        ELSE SubSeq(row, CHOOSE i \in keep : \A j \in keep : i <= j,
                         CHOOSE i \in keep : \A j \in keep : i >= j)

RECURSIVE scanRow(_, _, _)
\* The inner loop of parsePattern from column x on: the points pushed for
\* rows[y].
scanRow(row, y, x) ==
    IF x >= Len(row) THEN <<>>
    ELSE (IF row[x + 1] = "O" THEN << <<x, y>> >> ELSE <<>>)
         \o scanRow(row, y, x + 1)

RECURSIVE scanRows(_, _)
\* The outer loop of parsePattern from row y on.
scanRows(rows, y) ==
    IF y >= Len(rows) THEN <<>>
    ELSE scanRow(rows[y + 1], y, 0) \o scanRows(rows, y + 1)

\* Mutant: the rows are not filtered.
parsePattern_NoFilter(patternString) == scanRows(split(patternString), 0)

\* parsePattern(patternString): the array alive.
parsePattern(patternString) ==
    LET nonBlank(row) == Len(trim(row)) > 0
        rows == SelectSeq(split(patternString), nonBlank)
    IN  scanRows(rows, 0)

\* ------------------------------------------------------------ class Game

\* Mutant: the offsets are always added.
translate_Always(p, dx, dy) ==
    [i \in 1..Len(p) |-> <<p[i][1] + dx, p[i][2] + dy>>]

\* Mutant: each offset is added only when it is positive itself.
translate_Each(p, dx, dy) ==
    [i \in 1..Len(p) |-> <<p[i][1] + (IF dx > 0 THEN dx ELSE 0),
                           p[i][2] + (IF dy > 0 THEN dy ELSE 0)>>]

\* The first statement of applyPattern: pattern.map under the guard
\* offsetX > 0 || offsetY > 0 (dx, dy here).
translate(p, dx, dy) ==
    IF dx > 0 \/ dy > 0
      THEN [i \in 1..Len(p) |-> <<p[i][1] + dx, p[i][2] + dy>>]
      ELSE p

RECURSIVE applyEach_SkipBad(_, _, _, _, _)
\* Mutant: a point out of bounds is skipped and the loop goes on.
applyEach_SkipBad(m, p, i, w, h) ==
    IF i > Len(p) THEN [threw |-> FALSE, living |-> m]
    ELSE LET r == setAlive(m, p[i][1], p[i][2], TRUE, <<w>>, <<h>>)
             rest == applyEach_SkipBad(r.living, p, i + 1, w, h)
         IN  [threw |-> r.threw \/ rest.threw, living |-> rest.living]

RECURSIVE applyEach(_, _, _, _, _)
\* pattern.forEach(([x, y]) => setAlive(this.living, x, y, true, width,
\* height)) from index i on: the first throw ends the loop.
applyEach(m, p, i, w, h) ==
    IF i > Len(p) THEN [threw |-> FALSE, living |-> m]
    ELSE LET r == setAlive(m, p[i][1], p[i][2], TRUE, <<w>>, <<h>>)
         IN  IF r.threw THEN r ELSE applyEach(r.living, p, i + 1, w, h)

RECURSIVE sweep_Inclusive(_, _, _)
\* Mutant: the outer loop runs while x <= width.
sweep_Inclusive(game, m, i) ==
    IF i >= (game.width + 1) * game.height THEN [threw |-> FALSE, living |-> m]
    ELSE LET x == i \div game.height
             y == i % game.height
             r == setAlive(m, x, y, willLive(game, x, y),
                           <<game.width>>, <<game.height>>)
         IN  IF r.threw THEN r ELSE sweep_Inclusive(game, r.living, i + 1)

RECURSIVE sweep(_, _, _)
\* The two nested loops of tick from cell number i on (x outer, y inner),
\* writing into the object m (tick's next); game is read only.
sweep(game, m, i) ==
    IF i >= game.width * game.height THEN [threw |-> FALSE, living |-> m]
    ELSE LET x == i \div game.height
             y == i % game.height
             r == setAlive(m, x, y, willLive(game, x, y),
                           <<game.width>>, <<game.height>>)
         IN  IF r.threw THEN r ELSE sweep(game, r.living, i + 1)

\* The Game as willLive destructures it.
This == [width |-> width, height |-> height, living |-> heap[living]]

\* lastOp after the constructor; ret is the reference a method returned
\* (0 when it threw or returned none).
\* points is the array applyPattern iterates over (its parameter pattern
\* after the map).
NoOp == [op |-> "new", threw |-> FALSE, ret |-> 0, points |-> <<>>]

\* game.applyPattern(pattern, offsetX, offsetY): writes into the object
\* this.living refers to and returns that reference.
applyPattern ==
    LET r == applyEach(heap[living], translate(pattern, offsetX, offsetY), 1,
                       width, height)
    IN  /\ heap' = [heap EXCEPT ![living] = r.living]
        /\ lastOp' = [op |-> "applyPattern", threw |-> r.threw,
                      ret |-> IF r.threw THEN 0 ELSE living,
                      points |-> translate(pattern, offsetX, offsetY)]
        /\ UNCHANGED <<width, height, living, pattern, offsetX, offsetY>>

\* A caller's game.applyPattern(pattern, offsetX, offsetY).
ApplyPattern == applyPattern /\ UNCHANGED <<matrix, call, otherVars>>

\* Mutant: clear empties the object this.#living refers to and keeps it.
Clear_InPlace ==
    /\ Len(heap) < MaxObjects
    /\ heap' = [heap EXCEPT ![living] = EmptyMatrix]
    /\ lastOp' = [NoOp EXCEPT !.op = "clear", !.ret = living]
    /\ UNCHANGED <<width, height, living, pattern, offsetX, offsetY, matrix, call, otherVars>>

\* game.clear(): this.#living = {}
clear ==
    /\ heap' = Append(heap, EmptyMatrix)
    /\ living' = Len(heap) + 1
    /\ lastOp' = [NoOp EXCEPT !.op = "clear", !.ret = Len(heap) + 1]
    /\ UNCHANGED <<width, height, pattern, offsetX, offsetY>>

\* A caller's game.clear() while the Game has allocated fewer than
\* MaxObjects grids.
Clear == Len(heap) < MaxObjects /\ clear /\ UNCHANGED <<matrix, call, otherVars>>

\* Mutant: tick writes the next generation into the current object.
Tick_InPlace ==
    LET r == sweep(This, heap[living], 0)
    IN  /\ Len(heap) < MaxObjects
        /\ heap' = [heap EXCEPT ![living] = r.living]
        /\ lastOp' = [NoOp EXCEPT !.op = "tick", !.threw = r.threw,
                                  !.ret = IF r.threw THEN 0 ELSE living]
        /\ UNCHANGED <<width, height, living, pattern, offsetX, offsetY, matrix, call, otherVars>>

\* game.tick(): next = {}; the sweep; this.#living = next.  When the sweep
\* throws, the assignment is not reached.
tick ==
    LET r == sweep(This, EmptyMatrix, 0)
    IN  /\ heap' = IF r.threw THEN heap ELSE Append(heap, r.living)
        /\ living' = IF r.threw THEN living ELSE Len(heap) + 1
        /\ lastOp' = [NoOp EXCEPT !.op = "tick", !.threw = r.threw,
                                  !.ret = IF r.threw THEN 0 ELSE Len(heap) + 1]
        /\ UNCHANGED <<width, height, pattern, offsetX, offsetY>>

\* A caller's game.tick() while the Game has allocated fewer than
\* MaxObjects grids.
Tick == Len(heap) < MaxObjects /\ tick /\ UNCHANGED <<matrix, call, otherVars>>

\* ---------------------------------------------------------- class Renderer

\* visibleDimensions: the caller constructs the Game with width = cols and
\* height = rows of the Renderer (const { rows: height, cols: width } =
\* renderer.visibleDimensions; new Game(width, height)).
visibleDimensions == [rows |-> height, cols |-> width]

\* The canvas after paintCell(x, y, active) for every (x, y) of a set.
paintCells(canvas, S, active) == IF active THEN canvas \cup S ELSE canvas \ S

\* renderer.next(newState), called after the Game's method has returned;
\* newState is a reference.  Both forEach loops read the objects as they
\* are at the call: this.#state refers to an object, not to a copy.
rendererNext(newState) ==
    LET rows == visibleDimensions.rows
        cols == visibleDimensions.cols
        old == heap'[state]
        new == heap'[newState]
        disabled == {p \in Cells(old) :
                        p[1] <= cols /\ p[2] <= rows /\ ~isAlive(new, p[1], p[2])}
        enabled == {p \in Cells(new) :
                        p[1] <= cols /\ p[2] <= rows /\ ~isAlive(old, p[1], p[2])}
    IN  /\ painted' = paintCells(paintCells(painted, disabled, FALSE), enabled, TRUE)
        /\ state' = newState

\* ------------------------------------------------------- specifications

Dims == 0..MaxDim
Offsets == (-1)..MaxOffset
Points == (0..(MaxDim - 1)) \X (0..(MaxDim - 1))

\* The points of S in the order parsePattern pushes them: row by row, and
\* by column within a row.
RowMajor(S) ==
    CHOOSE f \in [1..Cardinality(S) -> S] :
        \A i, j \in 1..Cardinality(S) :
            i < j => f[i][2] * MaxDim + f[i][1] < f[j][2] * MaxDim + f[j][1]

\* The patterns a caller holds: as parsePattern returns them, of at most
\* MaxPatternLen points.
Patterns ==
    {RowMajor(S) : S \in {T \in SUBSET Points : Cardinality(T) <= MaxPatternLen}}

NoCall == [fn |-> "none"]

\* No direct call is made.
NoDirectCall == matrix = EmptyMatrix /\ call = NoCall

\* No tick is made step by step, there is no World of the variant and no
\* Renderer.
NoWorld == [width |-> 0, height |-> 0, living |-> EmptyMatrix]
NoOthers ==
    /\ next = EmptyMatrix /\ cell = -1
    /\ world = NoWorld
    /\ state = 0 /\ painted = {}

\* No Game is driven: a 0 x 0 World that is never touched.
NoGame ==
    /\ width = 0 /\ height = 0
    /\ heap = <<EmptyMatrix>> /\ living = 1
    /\ pattern = <<>> /\ offsetX = 0 /\ offsetY = 0
    /\ lastOp = NoOp

gameVars == <<width, height, heap, living, pattern, offsetX, offsetY, lastOp>>

\* Spec: a caller constructs a Game, new Game(width, height) (the
\* constructor ends with this.clear()), holds a pattern and two offsets as
\* src/gol.js does, and calls applyPattern, clear and tick in any order.
Init ==
    /\ width \in Dims
    /\ height \in Dims
    /\ heap = <<EmptyMatrix>>
    /\ living = 1
    /\ pattern \in Patterns
    /\ offsetX \in Offsets
    /\ offsetY \in Offsets
    /\ lastOp = NoOp
    /\ NoDirectCall
    /\ NoOthers

Next ==
    \/ ApplyPattern
    \/ Clear
    \/ Tick

Spec == Init /\ [][Next]_vars

\* SpecTick: a Game of up to MaxCells cells in any state that applyPattern
\* can bring about (any set of live cells in bounds, held with one key per
\* non-empty column), ticked repeatedly.
Matrix(S) == [x \in {p[1] : p \in S} |-> {p[2] : p \in {q \in S : q[1] = x}}]

InitTick ==
    /\ width \in 0..MaxCells
    /\ height \in 0..MaxCells
    /\ width * height <= MaxCells
    /\ \E S \in SUBSET ((0..(width - 1)) \X (0..(height - 1))) :
           heap = <<Matrix(S)>>
    /\ living = 1
    /\ pattern = <<>> /\ offsetX = 0 /\ offsetY = 0
    /\ lastOp = NoOp
    /\ NoDirectCall
    /\ NoOthers

NextTick == Tick

SpecTick == InitTick /\ [][NextTick]_vars

\* SpecNeighbors: one direct call getNeighbors(x, y, width, height).
InitNeighbors ==
    /\ NoGame
    /\ NoOthers
    /\ matrix = EmptyMatrix
    /\ call \in [fn : {"getNeighbors"}, x : (-1)..MaxSide, y : (-1)..MaxSide,
                 width : 0..MaxSide, height : 0..MaxSide,
                 done : {FALSE}, result : {<<>>}]

GetNeighborsCall ==
    /\ ~call.done
    /\ call' = [call EXCEPT !.done = TRUE,
                            !.result = getNeighbors(call.x, call.y,
                                                    call.width, call.height)]
    /\ UNCHANGED <<gameVars, matrix, otherVars>>

NextNeighbors == GetNeighborsCall

SpecNeighbors == InitNeighbors /\ [][NextNeighbors]_vars

\* SpecSetAlive: direct calls setAlive(matrix, x, y, alive, mx, my) on any
\* matrix, made MaxCalls times with the same arguments.  A maximum is
\* Infinity (omitted) or a number.
Coords == 0..(MaxCoord - 1)
Matrices == UNION {[K -> SUBSET Coords] : K \in SUBSET Coords}
Maxima == {Infinity} \cup {<<n>> : n \in 0..MaxCoord}

InitSetAlive ==
    /\ NoGame
    /\ NoOthers
    /\ matrix \in Matrices
    /\ call \in [fn : {"setAlive"}, x : (-1)..MaxCoord, y : (-1)..MaxCoord,
                 alive : BOOLEAN, mx : Maxima, my : Maxima,
                 n : {0}, threw : {FALSE}, before : {EmptyMatrix}]

SetAliveCall ==
    LET r == setAlive(matrix, call.x, call.y, call.alive, call.mx, call.my)
    IN  /\ call.n < MaxCalls
        /\ matrix' = r.living
        /\ call' = [call EXCEPT !.n = @ + 1, !.threw = r.threw,
                                !.before = matrix]
        /\ UNCHANGED <<gameVars, otherVars>>

NextSetAlive == SetAliveCall

SpecSetAlive == InitSetAlive /\ [][NextSetAlive]_vars

\* SpecParse: one direct call parsePattern(patternString) on any text of at
\* most MaxTextLen characters.
Chars == {"O", ".", " ", "\n"}
Texts == UNION {[1..n -> Chars] : n \in 0..MaxTextLen}

InitParse ==
    /\ NoGame
    /\ NoOthers
    /\ matrix = EmptyMatrix
    /\ call \in [fn : {"parsePattern"}, patternString : Texts,
                 done : {FALSE}, result : {<<>>}]

ParsePatternCall ==
    /\ ~call.done
    /\ call' = [call EXCEPT !.done = TRUE,
                            !.result = parsePattern(call.patternString)]
    /\ UNCHANGED <<gameVars, matrix, otherVars>>

NextParse == ParsePatternCall

SpecParse == InitParse /\ [][NextParse]_vars

\* SpecGenerations: a Game of one of the two largest sizes, brought by
\* applyPattern to a first generation of at most MaxPopulation cells near
\* the origin, and ticked until MaxGenerations generations exist.
InitGenerations ==
    /\ width \in (MaxWorld - 1)..MaxWorld
    /\ height \in (MaxWorld - 1)..MaxWorld
    /\ \E S \in SUBSET ((0..(MaxBoxWidth - 1)) \X (0..(MaxBoxHeight - 1))) :
           /\ Cardinality(S) <= MaxPopulation
           /\ heap = <<Matrix(S)>>
    /\ living = 1
    /\ pattern = <<>> /\ offsetX = 0 /\ offsetY = 0
    /\ lastOp = NoOp
    /\ NoDirectCall
    /\ NoOthers

TickGeneration ==
    Len(heap) < MaxGenerations /\ tick /\ UNCHANGED <<matrix, call, otherVars>>

NextGenerations == TickGeneration

SpecGenerations == InitGenerations /\ [][NextGenerations]_vars

\* SpecSweep: a Game as in SpecTick whose tick is taken one statement at a
\* time.  tick is synchronous, so no other method runs before it returns.
\* The object next is local to tick until the assignment installs it: it
\* joins the heap there.
InitSweep ==
    /\ width \in 0..MaxCells
    /\ height \in 0..MaxCells
    /\ width * height <= MaxCells
    /\ \E S \in SUBSET ((0..(width - 1)) \X (0..(height - 1))) :
           heap = <<Matrix(S)>>
    /\ living = 1
    /\ pattern = <<>> /\ offsetX = 0 /\ offsetY = 0
    /\ lastOp = NoOp
    /\ NoDirectCall
    /\ NoOthers

\* const next = {}
TickBegin ==
    /\ cell = -1
    /\ Len(heap) < MaxObjects
    /\ next' = EmptyMatrix
    /\ cell' = 0
    /\ UNCHANGED <<gameVars, matrix, call, world, state, painted>>

\* Mutant: the cell is written into the object this.#living refers to.
TickCell_InPlace ==
    LET x == cell \div height
        y == cell % height
        r == setAlive(heap[living], x, y, willLive(This, x, y), <<width>>, <<height>>)
    IN  /\ 0 <= cell /\ cell < width * height
        /\ heap' = [heap EXCEPT ![living] = r.living]
        /\ cell' = cell + 1
        /\ UNCHANGED <<width, height, living, pattern, offsetX, offsetY, lastOp,
                       next, matrix, call, world, state, painted>>

\* One pass of the inner loop's body, for the cell number cell (x outer, y
\* inner): setAlive(next, x, y, willLive(this, x, y), width, height).  A
\* throw ends the tick.
TickCell ==
    LET x == cell \div height
        y == cell % height
        r == setAlive(next, x, y, willLive(This, x, y), <<width>>, <<height>>)
    IN  /\ 0 <= cell /\ cell < width * height
        /\ next' = r.living
        /\ cell' = IF r.threw THEN -1 ELSE cell + 1
        /\ lastOp' = IF r.threw THEN [NoOp EXCEPT !.op = "tick", !.threw = TRUE]
                     ELSE lastOp
        /\ UNCHANGED <<width, height, heap, living, pattern, offsetX, offsetY,
                       matrix, call, world, state, painted>>

\* this.#living = next; return this.living
TickEnd ==
    /\ cell = width * height
    /\ heap' = Append(heap, next)
    /\ living' = Len(heap) + 1
    /\ lastOp' = [NoOp EXCEPT !.op = "tick", !.ret = Len(heap) + 1]
    /\ next' = EmptyMatrix
    /\ cell' = -1
    /\ UNCHANGED <<width, height, pattern, offsetX, offsetY, matrix, call,
                   world, state, painted>>

NextSweep ==
    \/ TickBegin
    \/ TickCell
    \/ TickEnd

SpecSweep == InitSweep /\ [][NextSweep]_vars

\* SpecVariants: a caller drives a Game of src/lib/game.js and a World of
\* src/gol.js of the same size, both empty at first, with the same calls:
\* setAlive on a cell within the bounds (on game.living, with the Game's
\* width and height as maxima, and on the World) and a tick (the caller
\* holds on to what tick returns: world = tick(world)).  The caller keeps
\* no reference to a grid the Game has replaced, so the heap holds the
\* Game's current grid only.
InitVariants ==
    /\ width \in 0..MaxVariantCells
    /\ height \in 0..MaxVariantCells
    /\ width * height <= MaxVariantCells
    /\ heap = <<EmptyMatrix>>
    /\ living = 1
    /\ pattern = <<>> /\ offsetX = 0 /\ offsetY = 0
    /\ lastOp = NoOp
    /\ NoDirectCall
    /\ next = EmptyMatrix /\ cell = -1
    /\ world = create(width, height)
    /\ state = 0 /\ painted = {}

SetAliveBoth ==
    \E x \in 0..(width - 1), y \in 0..(height - 1), alive \in BOOLEAN :
        LET r == setAlive(heap[living], x, y, alive, <<width>>, <<height>>)
            v == setAliveWorld(world, x, y, alive)
        IN  /\ heap' = [heap EXCEPT ![living] = r.living]
            /\ world' = v.world
            /\ lastOp' = [NoOp EXCEPT !.op = "setAlive", !.threw = r.threw \/ v.threw]
            /\ UNCHANGED <<width, height, living, pattern, offsetX, offsetY,
                           matrix, call, next, cell, state, painted>>

TickBoth ==
    LET r == sweep(This, EmptyMatrix, 0)
        v == tickWorld(world)
    IN  /\ heap' = IF r.threw THEN heap ELSE <<r.living>>
        /\ world' = IF v.threw THEN world ELSE v.world
        /\ lastOp' = [NoOp EXCEPT !.op = "tick", !.threw = r.threw \/ v.threw,
                                  !.ret = IF r.threw THEN 0 ELSE living]
        /\ UNCHANGED <<width, height, living, pattern, offsetX, offsetY,
                       matrix, call, next, cell, state, painted>>

NextVariants ==
    \/ SetAliveBoth
    \/ TickBoth

SpecVariants == InitVariants /\ [][NextVariants]_vars

\* SpecRender: the caller of src/unnamed/part_000 (the current gol.js):
\* a Renderer is constructed (its #state is an object of its own, {}, and
\* fullRepaint paints every visible cell as disabled), then a Game of the
\* Renderer's visible dimensions; the caller holds a pattern and offsets
\* and calls applyPattern, clear and tick in any order, each followed by
\* renderer.next(game.living).  An exception is not caught: it ends the
\* script.
InitRender ==
    /\ width \in Dims
    /\ height \in Dims
    /\ heap = <<EmptyMatrix, EmptyMatrix>>
    /\ state = 1
    /\ painted = {}
    /\ living = 2
    /\ pattern \in Patterns
    /\ offsetX \in Offsets
    /\ offsetY \in Offsets
    /\ lastOp = NoOp
    /\ NoDirectCall
    /\ next = EmptyMatrix /\ cell = -1
    /\ world = NoWorld

\* renderer.next(game.living) when the method before it has returned.
ThenNext ==
    IF lastOp'.threw THEN UNCHANGED <<state, painted>> ELSE rendererNext(living')

\* game.applyPattern(pattern, offsetX, offsetY); renderer.next(game.living)
ApplyPatternNext ==
    /\ ~lastOp.threw
    /\ applyPattern
    /\ ThenNext
    /\ UNCHANGED <<matrix, call, next, cell, world>>

\* game.clear(); renderer.next(game.living), while the Game has allocated
\* fewer than MaxObjects grids.
ClearNext ==
    /\ ~lastOp.threw
    /\ Len(heap) - 1 < MaxObjects
    /\ clear
    /\ ThenNext
    /\ UNCHANGED <<matrix, call, next, cell, world>>

\* renderer.next(game.tick())
TickNext ==
    /\ ~lastOp.threw
    /\ Len(heap) - 1 < MaxObjects
    /\ tick
    /\ ThenNext
    /\ UNCHANGED <<matrix, call, next, cell, world>>

NextRender ==
    \/ ApplyPatternNext
    \/ ClearNext
    \/ TickNext

SpecRender == InitRender /\ [][NextRender]_vars

\* ----------------------------------------------------------------- claims

\* The grid the World holds.
Grid == Cells(heap[living])

InBounds(p, w, h) == 0 <= p[1] /\ p[1] < w /\ 0 <= p[2] /\ p[2] < h

\* The in-bounds cells among the 8 positions adjacent to (x, y).
Adjacent(x, y, w, h) ==
    {p \in ((x - 1)..(x + 1)) \X ((y - 1)..(y + 1)) :
        p # <<x, y>> /\ InBounds(p, w, h)}

LiveNeighbours(S, x, y, w, h) == Cardinality(Adjacent(x, y, w, h) \cap S)

\* C1: after a tick, a cell within the bounds is alive iff in the
\* generation before it was alive with exactly 2 or 3 live neighbours or
\* dead with exactly 3, the neighbours being the in-bounds cells among the
\* 8 adjacent positions.
C1_TickRule ==
    [][lastOp'.op = "tick" =>
         \A x \in 0..(width - 1), y \in 0..(height - 1) :
             <<x, y>> \in Grid' <=>
                 IF <<x, y>> \in Grid
                   THEN LiveNeighbours(Grid, x, y, width, height) \in {2, 3}
                   ELSE LiveNeighbours(Grid, x, y, width, height) = 3]_vars

\* A tick has killed a live cell that had four or more live neighbours.
C1_Witness ==
    /\ lastOp.op = "tick"
    /\ living > 1
    /\ \E p \in Cells(heap[living - 1]) :
           /\ LiveNeighbours(Cells(heap[living - 1]), p[1], p[2], width, height) >= 4
           /\ p \notin Grid

\* C2: every live cell of the World's grid lies within the bounds, after
\* any sequence of applyPattern (succeeding or failing), clear and tick.
C2_LiveCellsInBounds == \A p \in Grid : InBounds(p, width, height)

\* An applyPattern has failed and left live cells behind.
C2_Witness ==
    lastOp.op = "applyPattern" /\ lastOp.threw /\ Grid # {}

\* C3: tick leaves every object allocated before it as it was (so a
\* retained reference to the pre-tick grid still shows the prior
\* generation), and returns a reference to none of them.
C3_TickLeavesOldGrid ==
    [][lastOp'.op = "tick" =>
         /\ \A i \in 1..Len(heap) : i <= Len(heap') /\ heap'[i] = heap[i]
         /\ lastOp'.ret \notin 1..Len(heap)
         /\ lastOp'.ret = living']_vars

\* A tick has produced a generation that differs from the non-empty
\* generation before it, which the old object still holds.
C3_Witness ==
    /\ lastOp.op = "tick"
    /\ living > 1
    /\ Cells(heap[living - 1]) # {}
    /\ Grid # Cells(heap[living - 1])

\* v >= max as the claims read it: no number reaches an omitted maximum.
Reaches(v, max) == max # Infinity /\ v >= max[1]

\* The direct call's (x, y) is outside [0, mx) x [0, my).
CallOutside ==
    \/ call.x < 0 \/ Reaches(call.x, call.mx)
    \/ call.y < 0 \/ Reaches(call.y, call.my)

\* C4: set with x or y out of bounds fails, whether alive is true or
\* false, and the live cells after the failed call are those before it.
C4_OutOfBoundsRejected ==
    (call.fn = "setAlive" /\ call.n >= 1 /\ CallOutside) =>
        call.threw /\ Cells(matrix) = Cells(call.before)

\* A call with alive = false has failed on a matrix holding live cells,
\* with x in range and y beyond the maximum.
C4_Witness ==
    /\ call.fn = "setAlive" /\ call.n >= 1
    /\ call.threw /\ ~call.alive
    /\ call.x >= 0 /\ ~Reaches(call.x, call.mx) /\ Reaches(call.y, call.my)
    /\ Cells(matrix) # {}

\* C5: after an in-bounds set(x, y, alive), contains(x, y) = alive, the
\* call does not fail, and a repetition of the call leaves the live cells
\* as they were.
C5_SetThenContains ==
    (call.fn = "setAlive" /\ call.n >= 1 /\ ~CallOutside) =>
        /\ ~call.threw
        /\ isAlive(matrix, call.x, call.y) = call.alive
        /\ call.n >= 2 => Cells(matrix) = Cells(call.before)

\* set(x, y, false) has been repeated on a cell, other cells being alive.
C5_Witness ==
    /\ call.fn = "setAlive" /\ call.n = 2
    /\ ~call.threw /\ ~call.alive
    /\ ~isAlive(matrix, call.x, call.y)
    /\ Cells(matrix) # {}

\* The kinds of cell of a w x h grid.
Inside(c) == InBounds(<<c.x, c.y>>, c.width, c.height)
Interior(c) == 0 < c.x /\ c.x < c.width - 1 /\ 0 < c.y /\ c.y < c.height - 1
Corner(c) ==
    Inside(c) /\ c.x \in {0, c.width - 1} /\ c.y \in {0, c.height - 1}
Edge(c) == Inside(c) /\ ~Interior(c) /\ ~Corner(c)

\* C6 as stated: 8 coordinates for an interior cell, 3 for a non-corner
\* edge cell, 2 for a corner cell, 0 for a cell outside the grid.
C6_CountsAsStated ==
    (call.fn = "getNeighbors" /\ call.done) =>
        /\ Interior(call) => Len(call.result) = 8
        /\ Edge(call) => Len(call.result) = 3
        /\ Corner(call) => Len(call.result) = 2
        /\ ~Inside(call) => Len(call.result) = 0

\* C6 amended: 8 coordinates for an interior cell; on a grid of width and
\* height at least 2, 5 for a non-corner edge cell and 3 for a corner
\* cell; 0 for a cell outside the grid.
C6_Counts ==
    (call.fn = "getNeighbors" /\ call.done) =>
        /\ Interior(call) => Len(call.result) = 8
        /\ (call.width >= 2 /\ call.height >= 2 /\ Edge(call)) =>
               Len(call.result) = 5
        /\ (call.width >= 2 /\ call.height >= 2 /\ Corner(call)) =>
               Len(call.result) = 3
        /\ ~Inside(call) => Len(call.result) = 0

\* The neighbours of a non-corner edge cell of a grid at least 2 wide and
\* high have been computed.
C6_Witness ==
    /\ call.fn = "getNeighbors" /\ call.done
    /\ call.width >= 2 /\ call.height >= 2 /\ Edge(call)
    /\ Len(call.result) = 5

\* C7: for a cell inside the grid the result holds, once each, exactly the
\* in-bounds positions among the 8 adjacent ones; for a cell outside it is
\* empty.
C7_NeighborsAreAdjacentInBounds ==
    (call.fn = "getNeighbors" /\ call.done) =>
        IF Inside(call)
          THEN /\ {call.result[i] : i \in 1..Len(call.result)}
                    = Adjacent(call.x, call.y, call.width, call.height)
               /\ \A i, j \in 1..Len(call.result) :
                      i # j => call.result[i] # call.result[j]
          ELSE call.result = <<>>

\* The neighbours of a cell on the east border have been computed.
C7_Witness ==
    /\ call.fn = "getNeighbors" /\ call.done
    /\ Inside(call) /\ call.x = call.width - 1 /\ call.width >= 2
    /\ Len(call.result) >= 3

\* The caller's pattern with both offsets added to every point.
Shifted ==
    [i \in 1..Len(pattern) |-> <<pattern[i][1] + offsetX, pattern[i][2] + offsetY>>]

\* The coordinates applyPattern is to set, as C9 states them: translated
\* when at least one offset is positive, untranslated otherwise.
Applied == IF offsetX > 0 \/ offsetY > 0 THEN Shifted ELSE pattern

Range(q) == {q[i] : i \in 1..Len(q)}

\* The index of the first point of q outside the grid, 0 when there is none.
FirstOutside(q) ==
    IF \A i \in 1..Len(q) : InBounds(q[i], width, height) THEN 0
    ELSE CHOOSE i \in 1..Len(q) :
             /\ ~InBounds(q[i], width, height)
             /\ \A j \in 1..(i - 1) : InBounds(q[j], width, height)

\* C8: when a coordinate of the pattern falls outside the grid,
\* applyPattern throws, and the World's grid then holds the cells it held
\* before and the coordinates that come before the first one outside: none
\* of the later ones has been set by the call.
C8_FailureKeepsEarlierCells ==
    [][(lastOp'.op = "applyPattern" /\ FirstOutside(Applied) # 0) =>
         /\ lastOp'.threw
         /\ lastOp'.ret = 0
         /\ living' = living
         /\ Grid' = Grid \cup {Applied[i] : i \in 1..(FirstOutside(Applied) - 1)}]_vars

\* An applyPattern of three points has failed at the second: the first is
\* alive, the third lies within the bounds and is dead.
C8_Witness ==
    /\ lastOp.op = "applyPattern" /\ lastOp.threw
    /\ Len(pattern) = 3
    /\ FirstOutside(Applied) = 2
    /\ Applied[1] \in Grid
    /\ InBounds(Applied[3], width, height) /\ Applied[3] \notin Grid

\* C9: after a successful applyPattern the live cells are those alive
\* before together with the pattern's coordinates, translated by the
\* offsets when at least one offset is positive and untranslated otherwise.
C9_SuccessAddsPattern ==
    [][(lastOp'.op = "applyPattern" /\ ~lastOp'.threw) =>
         /\ Grid' = Grid \cup Range(Applied)
         /\ living' = living
         /\ lastOp'.ret = living]_vars

\* A pattern has been applied with a positive offset, and its translated
\* cells, which are not its own, are alive.
C9_Witness ==
    /\ lastOp.op = "applyPattern" /\ ~lastOp.threw
    /\ (offsetX > 0 \/ offsetY > 0)
    /\ pattern # <<>>
    /\ Range(Shifted) # Range(pattern)
    /\ Range(Shifted) \subseteq Grid

\* C10 as stated: a negative offset is never added, whatever the other
\* offset is: every coordinate the call has set (all of them, or those
\* before the failing one) has the pattern's x when offsetX < 0 and the
\* pattern's y when offsetY < 0.
C10_NegativeOffsetNeverAdded ==
    lastOp.op = "applyPattern" =>
        LET set == IF lastOp.threw THEN FirstOutside(lastOp.points) - 1
                   ELSE Len(lastOp.points)
        IN  /\ Len(lastOp.points) = Len(pattern)
            /\ offsetX < 0 =>
                   \A i \in 1..set : lastOp.points[i][1] = pattern[i][1]
            /\ offsetY < 0 =>
                   \A i \in 1..set : lastOp.points[i][2] = pattern[i][2]

\* C10 amended: a negative offset is not added when the other offset is
\* zero or negative (then neither offset is added); when the other offset
\* is positive, the negative offset is added to every coordinate.
C10_NegativeOffsetSkippedUnlessOtherPositive ==
    lastOp.op = "applyPattern" =>
        /\ Len(lastOp.points) = Len(pattern)
        /\ ((offsetX < 0 /\ offsetY <= 0) \/ (offsetY < 0 /\ offsetX <= 0)) =>
               lastOp.points = pattern
        /\ ((offsetX < 0 /\ offsetY > 0) \/ (offsetY < 0 /\ offsetX > 0)) =>
               lastOp.points = Shifted

\* A pattern has been applied with a negative offsetX and an offsetY that
\* is not positive, and its untranslated cells are alive.
C10_Witness ==
    /\ lastOp.op = "applyPattern" /\ ~lastOp.threw
    /\ offsetX < 0 /\ offsetY <= 0
    /\ pattern # <<>>
    /\ Range(pattern) \subseteq Grid

\* The lines of a text: line k (from 1) lies between the (k-1)-th and the
\* k-th line feed.
LineFeeds(s) == {i \in 1..Len(s) : s[i] = "\n"}
LineOf(s, i) == Cardinality({j \in LineFeeds(s) : j < i}) + 1
\* The characters of line k, by their index in the text.
LineChars(s, k) == {i \in 1..Len(s) : s[i] # "\n" /\ LineOf(s, i) = k}
WhitespaceOnly(s, k) == \A i \in LineChars(s, k) : s[i] = " "
\* The row index of line k: the number of lines before it that are not
\* whitespace-only.
RowIndex(s, k) == Cardinality({j \in 1..(k - 1) : ~WhitespaceOnly(s, j)})
\* The column of character i in its untrimmed line, from 0.
Column(s, i) == Cardinality({j \in LineChars(s, LineOf(s, i)) : j < i})
\* The coordinates the characters `O` of a text stand for.
Coordinates(s) ==
    {<<Column(s, i), RowIndex(s, LineOf(s, i))>> : i \in {j \in 1..Len(s) : s[j] = "O"}}

\* C11: parsePattern returns, once each, exactly the coordinates (x, y)
\* such that the y-th line among those that are not whitespace-only has an
\* `O` at column x of the untrimmed line, row by row and by column within a
\* row; parsePattern(".O\nO.\n\n") is [(1,0), (0,1)].
C11_ParsePattern ==
    (call.fn = "parsePattern" /\ call.done) =>
        /\ Range(call.result) = Coordinates(call.patternString)
        /\ \A i, j \in 1..Len(call.result) :
               i < j => \/ call.result[i][2] < call.result[j][2]
                        \/ /\ call.result[i][2] = call.result[j][2]
                           /\ call.result[i][1] < call.result[j][1]
        /\ call.patternString = <<".", "O", "\n", "O", ".", "\n", "\n">> =>
               call.result = << <<1, 0>>, <<0, 1>> >>

\* A text has been parsed in which a whitespace-only line stands between
\* two lines with an `O`, the second `O` behind a leading space.
C11_Witness ==
    /\ call.fn = "parsePattern" /\ call.done
    /\ call.patternString = <<"O", "\n", " ", "\n", " ", "O">>
    /\ call.result = << <<0, 0>>, <<1, 1>> >>

\* The three-cell line of C12 and the perpendicular line through (1,1).
BlinkerA == {<<1, 0>>, <<1, 1>>, <<1, 2>>}
BlinkerB == {<<0, 1>>, <<1, 1>>, <<2, 1>>}

\* C12: on a 5x5 World a tick turns the line (1,0),(1,1),(1,2) into exactly
\* (0,1),(1,1),(2,1) and that line into exactly the first one again, so
\* the two generations alternate for as long as the World is ticked.
C12_BlinkerAlternates ==
    [][(lastOp'.op = "tick" /\ width = 5 /\ height = 5) =>
         /\ Grid = BlinkerA => (~lastOp'.threw /\ Grid' = BlinkerB)
         /\ Grid = BlinkerB => (~lastOp'.threw /\ Grid' = BlinkerA)]_vars

\* A 5x5 World that started with (1,0),(1,1),(1,2) has been ticked twice:
\* its generations are the line, the perpendicular line, the line.
C12_Witness ==
    /\ width = 5 /\ height = 5
    /\ Len(heap) = 3 /\ living = 3 /\ lastOp.op = "tick"
    /\ Cells(heap[1]) = BlinkerA
    /\ Cells(heap[2]) = BlinkerB
    /\ Cells(heap[3]) = BlinkerA

\* The 2x2 block in the corner of the grid.
Block == {<<0, 0>>, <<1, 0>>, <<0, 1>>, <<1, 1>>}

\* C13: on a World of width >= 4 and height >= 4 whose live cells are
\* exactly the block (0,0),(1,0),(0,1),(1,1), a tick yields the same live
\* cells, and so does every further tick.
C13_BlockIsStill ==
    [][(lastOp'.op = "tick" /\ width >= 4 /\ height >= 4 /\ Grid = Block) =>
         (~lastOp'.threw /\ Grid' = Block)]_vars

\* A World wider than high that started with the block has been ticked
\* twice, and each of its generations is the block.
C13_Witness ==
    /\ width > height /\ height >= 4
    /\ Len(heap) = 3 /\ living = 3 /\ lastOp.op = "tick"
    /\ \A i \in 1..3 : Cells(heap[i]) = Block

\* C14 as stated: clear acts in place: after it, the object the World held
\* before the call holds no live cells.
C14_ClearEmptiesInPlace ==
    [][lastOp'.op = "clear" => Cells(heap'[living]) = {}]_vars

\* C14 amended: clear replaces the World's grid by a new, empty object, of
\* which it returns the reference; every object allocated before,
\* the one the World held included, is left as it was.
C14_ClearReplacesGrid ==
    [][lastOp'.op = "clear" =>
         /\ living' \notin 1..Len(heap)
         /\ Cells(heap'[living']) = {}
         /\ lastOp'.ret = living'
         /\ \A i \in 1..Len(heap) : heap'[i] = heap[i]]_vars

\* clear has been called on a World with live cells: the World's grid is
\* empty and the object it held before still holds the cells.
C14_Witness ==
    /\ lastOp.op = "clear"
    /\ living = 2
    /\ Cells(heap[1]) # {}
    /\ Grid = {}

\* The rule applied to the cell p of the generation S of a w x h grid.
Lives(S, p, w, h) ==
    IF p \in S THEN LiveNeighbours(S, p[1], p[2], w, h) \in {2, 3}
    ELSE LiveNeighbours(S, p[1], p[2], w, h) = 3

\* The cells of the grid; a set, so without any order of visit.
AllCells == (0..(width - 1)) \X (0..(height - 1))

\* The cells a tick in progress has evaluated.
Evaluated == {p \in AllCells : p[1] * height + p[2] < cell}

\* C15: while a tick is in progress the World's grid is the generation
\* from before the tick: no step but the last changes any object of the
\* heap or the World's reference.  What next holds after each step is, for
\* every cell evaluated so far, the rule applied to that generation, and
\* nothing else.  The reference changes in one step, after the last cell,
\* to an object holding the rule applied to every cell of that generation,
\* which is a set defined without any order of visit.
C15_SweepReadsPreTickGeneration ==
    [][/\ cell' # -1 =>
            /\ heap' = heap
            /\ living' = living
            /\ Cells(next') = {p \in Evaluated' : Lives(Grid, p, width, height)}
       /\ (heap' # heap \/ living' # living) =>
            /\ cell = width * height
            /\ cell' = -1
            /\ \A i \in 1..Len(heap) : heap'[i] = heap[i]
            /\ living' = Len(heap) + 1
            /\ Grid' = {p \in AllCells : Lives(Grid, p, width, height)}]_vars

\* A tick in progress has written a cell whose state changes, the cell to
\* evaluate next is adjacent to it, and the World's grid is still the
\* generation from before the tick.
C15_Witness ==
    /\ 0 < cell /\ cell < width * height
    /\ Grid = Cells(heap[1]) /\ living = 1
    /\ \E p \in Evaluated :
           /\ (p \in Cells(next)) # (p \in Grid)
           /\ <<cell \div height, cell % height>> \in Adjacent(p[1], p[2], width, height)

\* C16: after the same in-bounds setAlive calls and ticks from an empty
\* grid, the variant that keeps a column's empty set (src/lib/game.js) and
\* the variant that deletes it (src/gol.js) answer contains alike for
\* every coordinate, on the grid and around it, and forEach enumerates the
\* same set of coordinates in both; no call fails in either.
C16_VariantsAgree ==
    /\ \A x \in (-1)..width, y \in (-1)..height :
           isAlive(heap[living], x, y) = isAlive(world.living, x, y)
    /\ Cells(heap[living]) = Cells(world.living)
    /\ ~lastOp.threw

\* After a setAlive the two grids differ as objects: the Game's has a
\* column with an empty set, the World's has no such key, and other cells
\* are alive.
C16_Witness ==
    /\ lastOp.op = "setAlive"
    /\ world.width > 0
    /\ DOMAIN heap[living] # DOMAIN world.living
    /\ \E x \in DOMAIN heap[living] : heap[living][x] = {} /\ x \notin DOMAIN world.living
    /\ Cells(world.living) # {}

\* C17: on a World of any width and height from 0 on, in every state that
\* applyPattern (succeeding or failing), clear and tick lead to, tick runs
\* to completion: no setAlive of its sweep throws, that is, every
\* coordinate it passes lies in [0, width) x [0, height), and it returns
\* the World's new grid.
C17_TickNeverThrows ==
    lastOp.op = "tick" => (~lastOp.threw /\ lastOp.ret = living)

\* A tick has completed on a World with live cells that is not square.
C17_Witness ==
    /\ lastOp.op = "tick" /\ ~lastOp.threw
    /\ width > 0 /\ height > 0 /\ width # height
    /\ living > 1
    /\ Cells(heap[living - 1]) # {}

\* The cells of the canvas that are visible.
Visible(p) == p[1] < visibleDimensions.cols /\ p[2] < visibleDimensions.rows

\* C18: after every renderer.next(game.living) that follows a Game
\* operation, the visible cells last painted as enabled are the live cells
\* of the grid passed to the call, as after a full repaint; also when
\* applyPattern has written into the object the Renderer holds as its
\* state.
C18_CanvasShowsGrid ==
    (state # 0 /\ lastOp.op # "new" /\ ~lastOp.threw) =>
        {p \in painted : Visible(p)} = {p \in Cells(heap[living]) : Visible(p)}

====
